---- MODULE Spec2Model ----
(***************************************************************************)
(* KoeParser (audeep/backend/parsers/koe.py): validation of a flat         *)
(* directory of .wav files against metadata.tsv, the cached manifest       *)
(* (row list, label map, fold count) and the materialised records.         *)
(*                                                                         *)
(* Texts (file names, table cells) are sequences of one-character strings, *)
(* so that lower-casing, suffix tests and integer parsing are computed.    *)
(* Python values read from the table are tagged with their type.           *)
(***************************************************************************)
EXTENDS Integers, Sequences, FiniteSets, TLC

(* Bounds of the model. *)
MaxRows == 2
MaxFold == 1
MaxSessionRows == 1

VARIABLES disk, table, self, ret, resolved, firstParse, changed

vars == <<disk, table, self, ret, resolved, firstParse, changed>>

(* ---------------------------------------------------------------- values *)

(* Optional values: Python's None, or a value. *)
None == <<>>
Some(v) == <<v>>
Val(o) == o[1]

(* A Python value as pandas hands it over: an int or a str. *)
PyInt(n) == [t |-> "int", v |-> n]
PyStr(s) == [t |-> "str", v |-> s]

Digits == <<"0", "1", "2", "3", "4", "5", "6", "7", "8", "9">>

IsDigit(c) == \E n \in 1..Len(Digits) : Digits[n] = c

DigitValue(c) == (CHOOSE n \in 1..Len(Digits) : Digits[n] = c) - 1

(* A cell that pandas' integer inference accepts: a run of decimal digits
   (signs and blanks are outside this model's cells). *)
IsIntText(cell) == Len(cell) >= 1 /\ \A i \in 1..Len(cell) : IsDigit(cell[i])

RECURSIVE IntOf(_)
IntOf(cell) ==
  IF Len(cell) = 0 THEN 0
  ELSE 10 * IntOf(SubSeq(cell, 1, Len(cell) - 1)) + DigitValue(cell[Len(cell)])

(* The decimal text of a one-digit number. *)
IntText(n) == <<Digits[n + 1]>>

(* ----------------------------------------------------------- file system *)

WavA == <<"a", ".", "w", "a", "v">>
WavB == <<"B", ".", "W", "A", "V">>
Other == <<"n", ".", "t", "x", "t">>
MetaName == <<"m", "e", "t", "a", "d", "a", "t", "a", ".", "t", "s", "v">>
DotWav == <<".", "w", "a", "v">>
Basedir == <<"d">>

EntryNames == {WavA, WavB, Other, MetaName}
Kinds == {"absent", "file", "dir"}

(* str.lower, on the letters that occur in the model's names. *)
LowerChar(c) ==
  CASE c = "A" -> "a"
    [] c = "B" -> "b"
    [] c = "V" -> "v"
    [] c = "W" -> "w"
    [] OTHER -> c

Lower(name) == [i \in 1..Len(name) |-> LowerChar(name[i])]

EndsWith(s, suffix) ==
  /\ Len(s) >= Len(suffix)
  /\ SubSeq(s, Len(s) - Len(suffix) + 1, Len(s)) = suffix

IsFile(d, n) == d[n] = "file"

(* glob("*") filtered by is_file() and name.lower().endswith(".wav"): the
   names only.  The code sorts the list and then only ever takes set(...) of
   it, so the order is not kept here. *)
FileNames(d) ==
  {n \in DOMAIN d : d[n] # "absent" /\ IsFile(d, n) /\ EndsWith(Lower(n), DotWav)}

(* os.path.join(basedir, filename) for a relative filename. *)
JoinPath(base, filename) == base \o <<"/">> \o filename

(* ------------------------------------------------------------- read_csv *)

ExpectedHeader == <<"id", "filename", "label", "label_enum", "fold">>

(* read_csv on a file without a header line raises pandas' EmptyDataError. *)
ReadCsvRaises(t) == t.header = <<>>

(* A column is read as integers when it has cells and all of them are
   integer texts; otherwise its cells stay strings (dtype object). *)
ColumnIsInt(rows, j) ==
  /\ Len(rows) >= 1
  /\ \A i \in 1..Len(rows) : IsIntText(rows[i][j])

ReadCsv(t) ==
  [columns |-> t.header,
   values |-> [i \in 1..Len(t.rows) |->
                [j \in 1..Len(t.header) |->
                  IF ColumnIsInt(t.rows, j)
                  THEN PyInt(IntOf(t.rows[i][j]))
                  ELSE PyStr(t.rows[i][j])]]]

(* list(df['filename']) under the validated header. *)
FilenameColumn(df) == {df.values[i][2] : i \in 1..Len(df.values)}

(* ------------------------------------------------------------ can_parse *)

Fresh ==
  [data |-> None, metadata |-> None, label_map_cache |-> None,
   can_parse_cache |-> None, numfolds |-> None]

(* Exceptions: the type and its arguments. *)
NoError == <<>>
TypeError == <<"TypeError">>
IndexError == <<"IndexError">>
EmptyDataError == <<"EmptyDataError">>
IOError(basedir) == <<"IOError", "unable to parse Koe dataset at", basedir>>

Return(s, v) == [self |-> s, kind |-> "return", value |-> v]
Raise(s, e) == [self |-> s, kind |-> "raise", value |-> e]

IsCachedOnlyTrue(s) == s.can_parse_cache = Some(TRUE)

(* if self._can_parse_cache is None: ... else: return the cache *)
IsCached(s) == s.can_parse_cache # None

(* header != ['id', 'filename', 'label', 'label_enum', 'fold'] *)
HeaderOk(header) == header = ExpectedHeader

SetsMatchSubset(file_names, metadata_file_names) ==
  metadata_file_names \subseteq {PyStr(n) : n \in file_names}

(* set(file_names) != set(metadata_file_names), negated *)
SetsMatch(file_names, metadata_file_names) ==
  {PyStr(n) : n \in file_names} = metadata_file_names

LabelMapPutLast(m, label, label_enum) == (label :> label_enum) @@ m

(* if label not in self._label_map_cache: self._label_map_cache[label] = label_enum *)
LabelMapPut(m, label, label_enum) ==
  IF label \in DOMAIN m THEN m ELSE m @@ (label :> label_enum)

(* if fold > self._numfolds: self._numfolds = fold *)
FoldMax(n, fold) == IF fold > n THEN fold ELSE n

NumfoldsFinalNoIncrement(n) == n

(* self._numfolds += 1 *)
NumfoldsFinal(n) == n + 1

(* The loop over self._metadata.values.  Comparing a str fold with the int
   fold count raises TypeError, after the row was appended and its label
   recorded. *)
RECURSIVE BuildFrom(_, _, _)
BuildFrom(values, i, acc) ==
  IF i > Len(values) THEN acc
  ELSE LET row == values[i]
           a1 == [acc EXCEPT !.data = Append(@, row),
                             !.label_map_cache = LabelMapPut(@, row[3], row[4])]
       IN IF row[5].t # "int"
          THEN [a1 EXCEPT !.raised = TypeError]
          ELSE BuildFrom(values, i + 1,
                         [a1 EXCEPT !.numfolds = FoldMax(@, row[5].v)])

KoeCanParse(s, d, t) ==
  IF IsCached(s) THEN Return(s, Val(s.can_parse_cache))
  ELSE IF ~IsFile(d, MetaName)
  THEN Return([s EXCEPT !.can_parse_cache = Some(FALSE)], FALSE)
  ELSE IF ReadCsvRaises(t) THEN Raise(s, EmptyDataError)
  ELSE LET df == ReadCsv(t)
           s1 == [s EXCEPT !.metadata = Some(df)]
       IN IF ~HeaderOk(df.columns)
          THEN Return([s1 EXCEPT !.can_parse_cache = Some(FALSE)], FALSE)
          ELSE IF ~SetsMatch(FileNames(d), FilenameColumn(df))
          THEN Return([s1 EXCEPT !.can_parse_cache = Some(FALSE)], FALSE)
          ELSE LET acc == BuildFrom(df.values, 1,
                            [data |-> <<>>, label_map_cache |-> <<>>,
                             numfolds |-> 0, raised |-> NoError])
                   s2 == [s1 EXCEPT !.data = Some(acc.data),
                                    !.label_map_cache = Some(acc.label_map_cache),
                                    !.numfolds = Some(acc.numfolds)]
               IN IF acc.raised # NoError THEN Raise(s2, acc.raised)
                  ELSE Return([s2 EXCEPT !.numfolds = Some(NumfoldsFinal(acc.numfolds)),
                                         !.can_parse_cache = Some(TRUE)], TRUE)

(* ------------------------------------------------------------ accessors *)

CannotParseSilent(r) == Return(r.self, <<>>)

(* raise IOError("unable to parse Koe dataset at {}".format(self._basedir)) *)
CannotParse(r) == Raise(r.self, IOError(Basedir))

(* if not self.can_parse(): raise IOError(...); an exception of can_parse
   itself propagates. *)
NumInstances(s, d, t) ==
  LET r == KoeCanParse(s, d, t)
  IN IF r.kind = "raise" THEN r
     ELSE IF ~r.value THEN CannotParse(r)
     ELSE Return(r.self, Len(Val(r.self.data)))

NumFolds(s, d, t) ==
  LET r == KoeCanParse(s, d, t)
  IN IF r.kind = "raise" THEN r
     ELSE IF ~r.value THEN CannotParse(r)
     ELSE Return(r.self, Val(r.self.numfolds))

LabelMap(s, d, t) ==
  LET r == KoeCanParse(s, d, t)
  IN IF r.kind = "raise" THEN r
     ELSE IF ~r.value THEN CannotParse(r)
     ELSE Return(r.self, Val(r.self.label_map_cache))

(* ---------------------------------------------------------------- parse *)

(* Python list indexing: a negative index counts from the end; anything
   outside the list raises IndexError. *)
PyIndex(n, i) == IF i < 0 THEN i + n ELSE i

PyIndexOk(n, i) == PyIndex(n, i) >= 0 /\ PyIndex(n, i) < n

CvFoldsOffByOne(n, fold) ==
  [k \in 1..n |-> IF k = PyIndex(n, fold) THEN "VALID" ELSE "TRAIN"]

(* cv_folds = [Split.TRAIN] * self._numfolds; cv_folds[fold] = Split.VALID
   (position fold of the 0-based list is element fold + 1 here). *)
CvFolds(n, fold) ==
  [k \in 1..n |-> IF k = PyIndex(n, fold) + 1 THEN "VALID" ELSE "TRAIN"]

(* _InstanceMetadata(path=..., filename=str(filename), ...): the filename
   cell of a validated table is a str, and str() of a str is that str. *)
InstanceMetadata(row, n) ==
  [path |-> JoinPath(Basedir, row[2].v),
   filename |-> row[2].v,
   label_nominal |-> row[3],
   label_numeric |-> row[4],
   cv_folds |-> CvFolds(n, row[5].v),
   partition |-> None]

(* The exception the loop body raises on this row, if any. *)
RowRaises(row, n) ==
  IF row[5].t # "int" THEN TypeError
  ELSE IF ~PyIndexOk(n, row[5].v) THEN IndexError
  ELSE NoError

RowsToEmitDedup(data) ==
  SelectSeq([i \in 1..Len(data) |-> [i |-> i, row |-> data[i]]],
            LAMBDA e : \A j \in 1..(e.i - 1) : data[j][2] # e.row[2])

(* for sid, filename, label, label_enum, fold in self._data *)
RowsToEmit(data) == [i \in 1..Len(data) |-> [i |-> i, row |-> data[i]]]

Parse(s, d, t) ==
  LET r == KoeCanParse(s, d, t)
  IN IF r.kind = "raise" THEN r
     ELSE IF ~r.value THEN CannotParse(r)
     ELSE LET data == Val(r.self.data)
              n == Val(r.self.numfolds)
              emit == RowsToEmit(data)
              bad == {k \in 1..Len(emit) : RowRaises(emit[k].row, n) # NoError}
          IN IF bad # {}
             THEN Raise(r.self,
                        RowRaises(emit[CHOOSE k \in bad : \A m \in bad : k <= m].row, n))
             ELSE Return(r.self,
                         [k \in 1..Len(emit) |-> InstanceMetadata(emit[k].row, n)])

(* -------------------------------------------------------------- actions *)

Snapshot(s) ==
  [status |-> Val(s.can_parse_cache), data |-> s.data,
   label_map |-> s.label_map_cache, numfolds |-> s.numfolds]

(* One call of an operation of the parser: the object's fields after the
   call and the outcome the caller sees.  resolved and firstParse record the
   cached state at the moment validation resolved and the first list parse
   returned. *)
Call(op, r) ==
  /\ self' = r.self
  /\ ret' = [op |-> op, kind |-> r.kind, value |-> r.value, after_change |-> changed]
  /\ resolved' = IF resolved = None /\ r.self.can_parse_cache # None
                 THEN Some(Snapshot(r.self)) ELSE resolved
  /\ firstParse' = IF firstParse = None /\ op = "parse" /\ r.kind = "return"
                   THEN Some(r.value) ELSE firstParse
  /\ UNCHANGED changed

can_parse ==
  /\ Call("can_parse", KoeCanParse(self, disk, table))
  /\ UNCHANGED <<disk, table>>

num_instances ==
  /\ Call("num_instances", NumInstances(self, disk, table))
  /\ UNCHANGED <<disk, table>>

num_folds ==
  /\ Call("num_folds", NumFolds(self, disk, table))
  /\ UNCHANGED <<disk, table>>

label_map ==
  /\ Call("label_map", LabelMap(self, disk, table))
  /\ UNCHANGED <<disk, table>>

parse ==
  /\ Call("parse", Parse(self, disk, table))
  /\ UNCHANGED <<disk, table>>

Next == can_parse \/ num_instances \/ num_folds \/ label_map \/ parse

(* ------------------------------------------------------- initial states *)

InitParser ==
  /\ self = Fresh
  /\ ret = [op |-> "none", kind |-> "none", value |-> None, after_change |-> FALSE]
  /\ resolved = None
  /\ firstParse = None
  /\ changed = FALSE

SeqsUpTo(S, n) == UNION {[1..k -> S] : k \in 0..n}

Sid == <<"s">>
Dog == <<"d", "o", "g">>
Cat == <<"c", "a", "t">>
NotAnInt == <<"x">>

NoTable == [header |-> <<>>, rows |-> <<>>]

Reordered == <<"id", "label", "filename", "label_enum", "fold">>
Renamed == <<"id", "name", "label", "label_enum", "fold">>

(* Validation: any directory, any header, rows whose fold may not be an
   integer. *)
ValidationRows ==
  {<<Sid, f, Dog, e, fold>> :
     f \in {WavA, WavB}, e \in {IntText(5), NotAnInt}, fold \in {IntText(0), NotAnInt}}

ValidationTables ==
  {NoTable} \cup
  {[header |-> h, rows |-> rows] :
     h \in {ExpectedHeader, Reordered, Renamed}, rows \in SeqsUpTo(ValidationRows, MaxRows)}

Init ==
  /\ disk \in [EntryNames -> Kinds]
  /\ table \in IF IsFile(disk, MetaName) THEN ValidationTables ELSE {NoTable}
  /\ InitParser

Spec == Init /\ [][Next]_vars

(* Manifest: a well-formed table over the .wav files, with every label,
   label code and fold. *)
LabelPairs == {<<Dog, IntText(5)>>, <<Dog, IntText(9)>>, <<Cat, IntText(9)>>}

ManifestRows ==
  {<<Sid, f, p[1], p[2], IntText(fold)>> :
     f \in {WavA, WavB}, p \in LabelPairs, fold \in 0..MaxFold}

InitManifest ==
  /\ disk \in {d \in [EntryNames -> {"absent", "file"}] :
                 d[MetaName] = "file" /\ d[Other] = "absent"}
  /\ table \in {[header |-> ExpectedHeader, rows |-> rows] :
                   rows \in SeqsUpTo(ManifestRows, MaxRows)}
  /\ InitParser

SpecManifest == InitManifest /\ [][Next]_vars

(* Session: the directory and metadata.tsv change between the calls. *)
SessionRows ==
  {<<Sid, WavA, p[1], p[2], IntText(0)>> : p \in {<<Dog, IntText(5)>>, <<Cat, IntText(9)>>}}
    \cup {<<Sid, WavA, Dog, IntText(5), NotAnInt>>}

SessionTables ==
  {[header |-> h, rows |-> rows] :
     h \in {ExpectedHeader, Renamed}, rows \in SeqsUpTo(SessionRows, MaxSessionRows)}

Environment ==
  /\ changed' = (resolved # None)
  /\ UNCHANGED <<self, ret, resolved, firstParse>>

(* A .wav file is created in, or removed from, the base directory. *)
CreateFile ==
  /\ disk[WavA] = "absent"
  /\ disk' = [disk EXCEPT ![WavA] = "file"]
  /\ UNCHANGED table
  /\ Environment

RemoveFile ==
  /\ disk[WavA] = "file"
  /\ disk' = [disk EXCEPT ![WavA] = "absent"]
  /\ UNCHANGED table
  /\ Environment

(* metadata.tsv is written (created or replaced), or removed. *)
WriteMetadata ==
  /\ \E t \in SessionTables :
       /\ t # table \/ ~IsFile(disk, MetaName)
       /\ table' = t
  /\ disk' = [disk EXCEPT ![MetaName] = "file"]
  /\ Environment

RemoveMetadata ==
  /\ IsFile(disk, MetaName)
  /\ disk' = [disk EXCEPT ![MetaName] = "absent"]
  /\ table' = NoTable
  /\ Environment

InitSession ==
  /\ disk \in {d \in [EntryNames -> {"absent", "file"}] :
                 d[WavB] = "absent" /\ d[Other] = "absent"}
  /\ table \in IF IsFile(disk, MetaName) THEN SessionTables ELSE {NoTable}
  /\ InitParser

NextSession ==
  \/ can_parse \/ num_instances \/ num_folds \/ label_map \/ parse
  \/ CreateFile \/ RemoveFile \/ WriteMetadata \/ RemoveMetadata

SpecSession == InitSession /\ [][NextSession]_vars

(* ----------------------------------------------------------- properties *)

Returned(op) == ret.op = op /\ ret.kind = "return"

Accessors == {"num_instances", "num_folds", "label_map", "parse"}

(* What is on disk now, stated from the directory and the table's text. *)
MetadataExists == disk[MetaName] = "file"

HeaderExact ==
  /\ Len(table.header) = 5
  /\ table.header[1] = "id" /\ table.header[2] = "filename" /\ table.header[3] = "label"
  /\ table.header[4] = "label_enum" /\ table.header[5] = "fold"

WavNamesOnDisk ==
  {n \in EntryNames : disk[n] = "file" /\ EndsWith(Lower(n), DotWav)}

TableFilenames == {table.rows[i][2] : i \in 1..Len(table.rows)}

PassesChecks == MetadataExists /\ HeaderExact /\ WavNamesOnDisk = TableFilenames

FoldsInTable == {IntOf(table.rows[i][5]) : i \in 1..Len(table.rows)}

MaxOf(S) == CHOOSE m \in S : \A k \in S : k <= m

(* C1: a call of can_parse returns true if and only if metadata.tsv is a
   regular file, its header is exactly [id, filename, label, label_enum,
   fold] and the .wav file names on disk equal the table's filename values
   as sets.  (The directory and the table are fixed under Spec, so every
   call sees what the first one saw.) *)
C1_TrueIffChecksPass ==
  ret.op = "can_parse" =>
    ((ret.kind = "return" /\ ret.value = TRUE) <=> PassesChecks)

(* C7: if the base directory holds a regular file other than metadata.tsv
   whose name does not end in .wav (case-insensitively), a can_parse call
   that returns, returns false. *)
ForeignFilePresent ==
  \E n \in EntryNames \ {MetaName} :
    disk[n] = "file" /\ ~EndsWith(Lower(n), DotWav)

C7_ForeignFileRejected ==
  (Returned("can_parse") /\ ForeignFilePresent) => ret.value = FALSE

(* C8: can_parse never raises: every call returns a boolean and leaves the
   validation status resolved. *)
C8_CanParseNeverRaises ==
  ret.op = "can_parse" => (ret.kind = "return" /\ self.can_parse_cache # None)

(* C10: for a dataset that passes validation, the set of filenames of the
   records parse returns equals the set of .wav file names on disk. *)
C10_RoundTrip ==
  (self.can_parse_cache = Some(TRUE) /\ ret.op = "parse") =>
    /\ ret.kind = "return"
    /\ {ret.value[i].filename : i \in 1..Len(ret.value)} = WavNamesOnDisk

C10_Witness ==
  /\ Returned("parse")
  /\ Len(ret.value) = 2
  /\ ret.value[1].filename = WavB /\ ret.value[2].filename = WavA
  /\ disk[Other] = "file"

(* C4: every record parse returns has a split vector of length num_folds
   that holds VALID at exactly one position, the row's own fold value
   (0-based), and TRAIN at every other position. *)
C4_SplitVector ==
  Returned("parse") =>
    \A i \in 1..Len(ret.value) :
      LET cv == ret.value[i].cv_folds
          fold == IntOf(table.rows[i][5])
      IN /\ Len(cv) = Val(self.numfolds)
         /\ fold + 1 \in 1..Len(cv)
         /\ cv[fold + 1] = "VALID"
         /\ \A k \in 1..Len(cv) : k # fold + 1 => cv[k] = "TRAIN"
         /\ Cardinality({k \in 1..Len(cv) : cv[k] = "VALID"}) = 1

C4_Witness ==
  /\ Returned("parse")
  /\ Len(ret.value) = 2
  /\ ret.value[1].cv_folds = <<"TRAIN", "VALID">>
  /\ ret.value[2].cv_folds = <<"VALID", "TRAIN">>

(* C5 as stated: num_folds equals one plus the maximum fold value observed
   across the rows of the table: some row carries the largest fold value and
   num_folds is that value plus one. *)
C5_OnePlusObservedMax ==
  Returned("num_folds") =>
    \E i \in 1..Len(table.rows) :
      /\ \A j \in 1..Len(table.rows) : IntOf(table.rows[j][5]) <= IntOf(table.rows[i][5])
      /\ ret.value = IntOf(table.rows[i][5]) + 1

(* C5 as amended: num_folds equals one plus the largest of 0 and the fold
   values of the rows, so it is 1 for a table without rows. *)
C5_OnePlusMaxFromZero ==
  Returned("num_folds") => ret.value = 1 + MaxOf({0} \cup FoldsInTable)

C5_Witness ==
  /\ Returned("num_folds")
  /\ ret.value = 2
  /\ Len(table.rows) >= 1
  /\ 0 \notin FoldsInTable

(* C6: label_map has exactly the labels of the table as keys and maps each
   label to the label_enum of the first row carrying it. *)
C6_FirstSeenLabelCode ==
  Returned("label_map") =>
    /\ DOMAIN ret.value = {PyStr(table.rows[i][3]) : i \in 1..Len(table.rows)}
    /\ \A i \in 1..Len(table.rows) :
         (\A j \in 1..(i - 1) : table.rows[j][3] # table.rows[i][3])
           => ret.value[PyStr(table.rows[i][3])] = PyInt(IntOf(table.rows[i][4]))

C6_Witness ==
  /\ Returned("label_map")
  /\ Len(table.rows) = 2
  /\ table.rows[1][3] = Dog /\ table.rows[2][3] = Dog
  /\ table.rows[1][4] = IntText(5) /\ table.rows[2][4] = IntText(9)
  /\ ret.value[PyStr(Dog)] = PyInt(5)

(* C9: parse returns one record per table row, in table row order and
   without deduplication; the i-th record carries the i-th row's filename,
   label and label_enum, the path basedir/filename and an unset partition;
   the length of the list equals num_instances. *)
C9_OneRecordPerRow ==
  /\ (self.can_parse_cache = Some(TRUE) /\ ret.op = "parse") =>
       /\ ret.kind = "return"
       /\ Len(ret.value) = Len(table.rows)
       /\ Len(ret.value) = Len(Val(self.data))
       /\ \A i \in 1..Len(table.rows) :
            /\ ret.value[i].filename = table.rows[i][2]
            /\ ret.value[i].label_nominal = PyStr(table.rows[i][3])
            /\ ret.value[i].label_numeric = PyInt(IntOf(table.rows[i][4]))
            /\ ret.value[i].path = Basedir \o <<"/">> \o table.rows[i][2]
            /\ ret.value[i].partition = None
  /\ Returned("num_instances") => ret.value = Len(table.rows)

C9_Witness ==
  /\ Returned("parse")
  /\ Len(ret.value) = 2
  /\ ret.value[1].filename = WavA /\ ret.value[2].filename = WavA
  /\ ret.value[1].label_nominal # ret.value[2].label_nominal
  /\ WavNamesOnDisk = {WavA}

(* C2: once can_parse has resolved to false, every call of num_instances,
   num_folds, label_map and parse raises the IOError naming the base
   directory, whatever the directory and the table have become. *)
C2_AccessorsRaiseIOError ==
  (self.can_parse_cache = Some(FALSE) /\ ret.op \in Accessors) =>
    (ret.kind = "raise" /\ ret.value = <<"IOError", "unable to parse Koe dataset at", Basedir>>)

C2_Witness ==
  /\ self.can_parse_cache = Some(FALSE)
  /\ ret.op = "parse" /\ ret.kind = "raise" /\ ret.after_change
  /\ PassesChecks

(* C3: once validation has resolved, the status, the row list, the label map
   and the fold count stay what they were at that moment; can_parse keeps
   returning that status, the accessors keep returning those values (or keep
   raising IOError) and every list parse returns equals the first one,
   whatever happens to the directory and to metadata.tsv. *)
C3_ResolvedNeverChanges ==
  resolved # None =>
    LET snap == Val(resolved)
    IN /\ self.can_parse_cache = Some(snap.status)
       /\ self.data = snap.data
       /\ self.label_map_cache = snap.label_map
       /\ self.numfolds = snap.numfolds
       /\ ret.op = "can_parse" => (ret.kind = "return" /\ ret.value = snap.status)
       /\ ret.op \in Accessors => (ret.kind = "return") = snap.status
       /\ Returned("num_instances") => ret.value = Len(Val(snap.data))
       /\ Returned("num_folds") => ret.value = Val(snap.numfolds)
       /\ Returned("label_map") => ret.value = Val(snap.label_map)
       /\ Returned("parse") => (firstParse # None /\ ret.value = Val(firstParse))

C3_Witness ==
  /\ resolved # None
  /\ Returned("parse") /\ ret.after_change
  /\ Len(ret.value) = 1
  /\ ~MetadataExists
  /\ WavNamesOnDisk = {}

====
